---- MODULE Spec2Model ----
(***************************************************************************)
(* Model of executors/flowcept_exp_executor/run_dask_job.py: the driver    *)
(* that runs the repetitions of one Dask experiment job.  One repetition   *)
(* (main) kills old job steps, optionally starts the Flowcept monitoring   *)
(* services, submits the Dask scheduler, polls for the scheduler file,     *)
(* submits one worker process group per node, runs the client workflow,    *)
(* stops the consumer, collects the result and writes the job output.      *)
(*                                                                         *)
(* The control thread is modelled by pc; the Dask scheduler process that   *)
(* writes the scheduler file runs concurrently (SchedulerWritesFile).      *)
(* Calls into collaborators outside this file (cluster utils, flowcept,    *)
(* shell commands) either succeed or raise; an exception that main does    *)
(* not catch ends the whole process (pc = "crashed").                      *)
(***************************************************************************)
EXTENDS Integers, Sequences, FiniteSets, TLC

\* bounds of the model (configuration values and timing slack)
MaxNodes == 2
MaxGpus == 2
MaxReps == 2
MaxJitter == 1

\* start_scheduler: total_wait_time = 160 (seconds), wait_time = 3
total_wait_time == 160
wait_time == 3

VARIABLES
    \* configuration document (exp_conf), fixed for the job
    nnodes, n_gpus_per_node, gpu_type, with_flowcept, should_start_mongo, nreps,
    \* control
    pc, rep_no, retval, raised,
    \* locals of main
    consumer, flowcept_settings, preload_scheduler_cmd, workflow_result, job_output,
    \* locals of start_scheduler and the wall clock since start_waiting_time
    clock, elapsed_time, sleep_left, ss_ret,
    \* locals of start_workers_with_gpu
    i, submissions,
    \* environment: files, running job steps, running consumers
    scheduler_file, result_file, running, consumers_running, success_written,
    \* history of the current repetition
    log, observed,
    \* history of the job: what each finished call of main returned, and the
    \* number of printed_sleep calls start_scheduler has made (counted only
    \* where the probe is examined on its own, see ProbeSpec)
    outcomes, sleeps,
    \* the text start_client works on, as sequences of tokens: the configured
    \* values it reads, its locals, and its position (followed only where
    \* the building of the command is examined on its own, see ClientSpec)
    dask_user_workflow, proj_dir, my_job_id, wf_params,
    python_client_command, client_cmd_args, arg_no, cpc

cfg == <<nnodes, n_gpus_per_node, gpu_type, with_flowcept, should_start_mongo, nreps>>
mainLocals == <<consumer, flowcept_settings, preload_scheduler_cmd, workflow_result, job_output>>
probeLocals == <<clock, elapsed_time, sleep_left, ss_ret>>
workerLocals == <<i, submissions>>
env == <<scheduler_file, result_file, running, consumers_running, success_written>>
clientText == <<dask_user_workflow, proj_dir, my_job_id, wf_params,
                python_client_command, client_cmd_args, arg_no, cpc>>
vars == <<cfg, pc, rep_no, retval, raised, mainLocals, probeLocals, workerLocals, env, log, observed,
          outcomes, sleeps, clientText>>

GpuTypes == {"amd", "nvidia", "other"}

\* os.path.exists(scheduler_file)
Exists(f) == f # "absent"

Count(s, e) == Cardinality({k \in 1..Len(s) : s[k] = e})

\* an exception nobody catches: the interpreter exits with a traceback
\* (raised remembers the exception and the step that raised it)
Raise(exc) ==
    /\ pc' = "crashed"
    /\ raised' = [exc |-> exc, at |-> pc]

\* an ordinary configuration of the client command, its text not yet built
ClientTextIdle ==
    /\ dask_user_workflow = <<"x", "$[", "rep-dir_val]", "$[", "scheduler-file_val]">>
    /\ proj_dir = <<"proj">>
    /\ my_job_id = <<"job">>
    /\ wf_params = <<>>
    /\ python_client_command = <<>>
    /\ client_cmd_args = <<>>
    /\ arg_no = 0
    /\ cpc = "idle"

Init ==
    /\ nnodes \in 1..MaxNodes
    /\ n_gpus_per_node \in 1..MaxGpus
    /\ gpu_type \in GpuTypes
    /\ with_flowcept \in BOOLEAN
    /\ should_start_mongo \in (IF with_flowcept THEN BOOLEAN ELSE {FALSE})
    /\ nreps \in 1..MaxReps
    /\ pc = "loop"
    /\ rep_no = -1
    /\ retval = "unset"
    /\ raised = [exc |-> "none", at |-> "none"]
    /\ consumer = "None"
    /\ flowcept_settings = "None"
    /\ preload_scheduler_cmd = ""
    /\ workflow_result = "unset"
    /\ job_output = "unset"
    /\ clock = 0
    /\ elapsed_time = 0
    /\ sleep_left = 0
    /\ ss_ret = "unset"
    /\ i = 0
    /\ submissions = <<>>
    /\ scheduler_file = "absent"
    /\ result_file = FALSE
    /\ running = [sched |-> 0, workers |-> 0]
    /\ consumers_running = 0
    /\ success_written = 0
    /\ log = <<>>
    /\ observed = FALSE
    /\ outcomes = <<>>
    /\ sleeps = 0
    /\ ClientTextIdle

----------------------------------------------------------------------------
\* __main__: for rep_no in range(nreps): main(...)
\* Each repetition has its own rep_dir, hence a fresh scheduler file and
\* result file; main's locals start afresh.
LoopNext ==
    /\ pc = "loop"
    /\ rep_no + 1 < nreps
    /\ rep_no' = rep_no + 1
    /\ pc' = "m_kill"
    /\ retval' = "unset"
    /\ consumer' = "None"
    /\ flowcept_settings' = "None"
    /\ preload_scheduler_cmd' = ""
    /\ workflow_result' = "unset"
    /\ job_output' = "unset"
    /\ clock' = 0
    /\ elapsed_time' = 0
    /\ sleep_left' = 0
    /\ ss_ret' = "unset"
    /\ i' = 0
    /\ submissions' = <<>>
    /\ scheduler_file' = "absent"
    /\ result_file' = FALSE
    /\ log' = <<>>
    /\ observed' = FALSE
    /\ UNCHANGED <<cfg, raised, running, consumers_running, success_written>>

\* __main__: after the loop, write the SUCCESS file and sys.exit(0)
WriteSuccess ==
    /\ pc = "loop"
    /\ ~(rep_no + 1 < nreps)
    /\ success_written' = success_written + 1
    /\ pc' = "exit"
    /\ UNCHANGED <<cfg, rep_no, retval, raised, mainLocals, probeLocals, workerLocals,
                   scheduler_file, result_file, running, consumers_running, log, observed>>

----------------------------------------------------------------------------
\* mutant: main starts without killing the old job steps
MainKillOld_NoKill ==
    /\ pc = "m_kill"
    /\ log' = Append(log, "kill_steps")
    /\ pc' = "m_setup"
    /\ UNCHANGED <<cfg, rep_no, retval, raised, mainLocals, probeLocals, workerLocals, env,
                   observed>>

\* main: cluster_utils.kill_all_running_job_steps()
MainKillOld ==
    /\ pc = "m_kill"
    /\ \E ok \in BOOLEAN :
        IF ok
        THEN /\ running' = [sched |-> 0, workers |-> 0]
             /\ log' = Append(log, "kill_steps")
             /\ pc' = "m_setup"
             /\ UNCHANGED raised
        ELSE /\ Raise("ExternalError")
             /\ UNCHANGED <<running, log>>
    /\ UNCHANGED <<cfg, rep_no, retval, mainLocals, probeLocals, workerLocals,
                   scheduler_file, result_file, consumers_running, success_written, observed>>

\* main: directories, configuration reads, "which python", get_job_hosts, sleep
MainSetup ==
    /\ pc = "m_setup"
    /\ \E ok \in BOOLEAN :
        IF ok
        THEN /\ log' = Append(log, "which_python")
             /\ pc' = "m_flowcept"
             /\ UNCHANGED raised
        ELSE /\ Raise("ExternalError")
             /\ UNCHANGED log
    /\ UNCHANGED <<cfg, rep_no, retval, mainLocals, probeLocals, workerLocals, env, observed>>

\* mutant: main goes to the scheduler without start_flowcept
MainFlowceptBranch_SkipsFlowcept ==
    /\ pc = "m_flowcept"
    /\ pc' = "ss_gpu"
    /\ UNCHANGED <<cfg, rep_no, retval, raised, mainLocals, probeLocals, workerLocals, env,
                   log, observed>>

\* main: consumer = None; flowcept_settings = None; if with_flowcept: start_flowcept(...)
MainFlowceptBranch ==
    /\ pc = "m_flowcept"
    /\ pc' = IF with_flowcept THEN "fc_settings" ELSE "ss_gpu"
    /\ UNCHANGED <<cfg, rep_no, retval, raised, mainLocals, probeLocals, workerLocals, env,
                   log, observed>>

----------------------------------------------------------------------------
\* start_flowcept: imports, OmegaConf.load of the base settings,
\* update_flowcept_settings(...), os.environ["FLOWCEPT_SETTINGS_PATH"] = ...
FcSettings ==
    /\ pc = "fc_settings"
    /\ \E ok \in BOOLEAN :
        IF ok
        THEN /\ log' = log \o <<"fc_settings", "fc_env">>
             /\ pc' = "fc_kill_dbs"
             /\ UNCHANGED raised
        ELSE /\ Raise("ExternalError")
             /\ UNCHANGED log
    /\ UNCHANGED <<cfg, rep_no, retval, mainLocals, probeLocals, workerLocals, env, observed>>

\* start_flowcept: kill_dbs(db_host, should_start_mongo); printed_sleep(6)
FcKillDbs ==
    /\ pc = "fc_kill_dbs"
    /\ \E ok \in BOOLEAN :
        IF ok
        THEN /\ log' = Append(log, "kill_dbs")
             /\ pc' = "fc_redis"
             /\ UNCHANGED raised
        ELSE /\ Raise("ExternalError")
             /\ UNCHANGED log
    /\ UNCHANGED <<cfg, rep_no, retval, mainLocals, probeLocals, workerLocals, env, observed>>

\* start_flowcept: start_redis(db_host, redis_start_command)
FcStartRedis ==
    /\ pc = "fc_redis"
    /\ \E ok \in BOOLEAN :
        IF ok
        THEN /\ log' = Append(log, "start_redis")
             /\ pc' = "fc_mongo"
             /\ UNCHANGED raised
        ELSE /\ Raise("ExternalError")
             /\ UNCHANGED log
    /\ UNCHANGED <<cfg, rep_no, retval, mainLocals, probeLocals, workerLocals, env, observed>>

\* start_flowcept: if should_start_mongo: start_mongo(db_host, mongo_start_cmd, rep_dir)
FcStartMongo ==
    /\ pc = "fc_mongo"
    /\ should_start_mongo
    /\ \E ok \in BOOLEAN :
        IF ok
        THEN /\ log' = Append(log, "start_mongo")
             /\ pc' = "fc_consumer"
             /\ UNCHANGED raised
        ELSE /\ Raise("ExternalError")
             /\ UNCHANGED log
    /\ UNCHANGED <<cfg, rep_no, retval, mainLocals, probeLocals, workerLocals, env, observed>>

FcSkipMongo ==
    /\ pc = "fc_mongo"
    /\ ~should_start_mongo
    /\ pc' = "fc_consumer"
    /\ UNCHANGED <<cfg, rep_no, retval, raised, mainLocals, probeLocals, workerLocals, env,
                   log, observed>>

\* start_flowcept: consumer = FlowceptConsumerAPI(); consumer.start(); return ...
\* main: consumer, flowcept_settings, preload_scheduler_cmd = start_flowcept(...)
FcStartConsumer ==
    /\ pc = "fc_consumer"
    /\ \E ok \in BOOLEAN :
        IF ok
        THEN /\ log' = Append(log, "consumer_start")
             /\ consumers_running' = consumers_running + 1
             /\ consumer' = "FlowceptConsumerAPI"
             /\ flowcept_settings' = "settings"
             /\ preload_scheduler_cmd' = "--preload"
             /\ pc' = "ss_gpu"
             /\ UNCHANGED raised
        ELSE /\ Raise("ExternalError")
             /\ UNCHANGED <<log, consumers_running, consumer, flowcept_settings,
                            preload_scheduler_cmd>>
    /\ UNCHANGED <<cfg, rep_no, retval, workflow_result, job_output, probeLocals, workerLocals,
                   scheduler_file, result_file, running, success_written, observed>>

----------------------------------------------------------------------------
\* start_scheduler: the gpu_type branch; anything but amd / nvidia raises
KnownGpu(g) == g \in {"amd", "nvidia"}

StartSchedulerGpu ==
    /\ pc = "ss_gpu"
    /\ IF KnownGpu(gpu_type)
       THEN /\ pc' = "ss_run_job"
            /\ UNCHANGED raised
       ELSE Raise("ValueError")
    /\ UNCHANGED <<cfg, rep_no, retval, mainLocals, probeLocals, workerLocals, env, log, observed>>

\* start_scheduler: cluster_utils.run_job(cmd=scheduler_cmd, ...);
\* start_waiting_time = time(); elapsed_time = 0
StartSchedulerRunJob ==
    /\ pc = "ss_run_job"
    /\ \E ok \in BOOLEAN :
        IF ok
        THEN /\ log' = Append(log, "sched_submit")
             /\ running' = [running EXCEPT !.sched = @ + 1]
             /\ clock' = 0
             /\ elapsed_time' = 0
             /\ pc' = "ss_loop"
             /\ UNCHANGED raised
        ELSE /\ Raise("ExternalError")
             /\ UNCHANGED <<log, running, clock, elapsed_time>>
    /\ UNCHANGED <<cfg, rep_no, retval, mainLocals, sleep_left, ss_ret, workerLocals,
                   scheduler_file, result_file, consumers_running, success_written, observed>>

\* mutant: the loop compares the elapsed time with the poll interval
KeepWaiting_WrongBudget(f, elapsed) == ~Exists(f) /\ elapsed < wait_time

\* mutant: the loop waits on the elapsed time alone
KeepWaiting_IgnoresFile(f, elapsed) == elapsed < total_wait_time

\* mutant: the loop goes on while the elapsed time is at most the budget
KeepWaiting_Inclusive(f, elapsed) == ~Exists(f) /\ elapsed <= total_wait_time

\* start_scheduler: while not os.path.exists(scheduler_file) and elapsed_time < total_wait_time
KeepWaiting(f, elapsed) == ~Exists(f) /\ elapsed < total_wait_time

\* the loop test; on entry to the body printed_sleep(wait_time) starts, which
\* lasts wait_time seconds or a little more
ProbeLoop ==
    /\ pc = "ss_loop"
    /\ IF KeepWaiting(scheduler_file, elapsed_time)
       THEN /\ pc' = "ss_sleep"
            /\ sleep_left' \in wait_time..(wait_time + MaxJitter)
       ELSE /\ pc' = "ss_check"
            /\ UNCHANGED sleep_left
    /\ UNCHANGED <<cfg, rep_no, retval, raised, mainLocals, clock, elapsed_time, ss_ret,
                   workerLocals, env, log, observed>>

\* one second of printed_sleep(wait_time) passes
ProbeSleepTick ==
    /\ pc = "ss_sleep"
    /\ sleep_left > 0
    /\ clock' = clock + 1
    /\ sleep_left' = sleep_left - 1
    /\ UNCHANGED <<cfg, pc, rep_no, retval, raised, mainLocals, elapsed_time, ss_ret,
                   workerLocals, env, log, observed>>

\* start_scheduler: elapsed_time = time() - start_waiting_time
ProbeWake ==
    /\ pc = "ss_sleep"
    /\ sleep_left = 0
    /\ elapsed_time' = clock
    /\ pc' = "ss_loop"
    /\ UNCHANGED <<cfg, rep_no, retval, raised, mainLocals, clock, sleep_left, ss_ret,
                   workerLocals, env, log, observed>>

\* start_scheduler: if os.path.exists(scheduler_file): return True else: return False
ProbeFinal ==
    /\ pc = "ss_check"
    /\ ss_ret' = IF Exists(scheduler_file) THEN "True" ELSE "False"
    /\ observed' = Exists(scheduler_file)
    /\ pc' = "m_sched_ret"
    /\ UNCHANGED <<cfg, rep_no, retval, raised, mainLocals, clock, elapsed_time, sleep_left,
                   workerLocals, env, log>>

\* The Dask scheduler submitted in this repetition writes its scheduler file
\* (once; nothing removes it).  The file remembers whether it appeared while
\* the time since start_waiting_time was still below total_wait_time.
SchedulerWritesFile ==
    /\ pc \notin {"crashed", "exit"}
    /\ Count(log, "sched_submit") > 0
    /\ running.sched > 0
    /\ scheduler_file = "absent"
    /\ scheduler_file' = IF clock < total_wait_time THEN "created_in_budget" ELSE "created_late"
    /\ UNCHANGED <<cfg, pc, rep_no, retval, raised, mainLocals, probeLocals, workerLocals,
                   result_file, running, consumers_running, success_written, log, observed>>

\* mutant: main ignores what start_scheduler returned
MainSchedulerReturn_Ungated ==
    /\ pc = "m_sched_ret"
    /\ pc' = "sw_gpu"
    /\ elapsed_time' = 0
    /\ sleep_left' = 0
    /\ clock' = IF clock < total_wait_time THEN 0 ELSE total_wait_time
    /\ UNCHANGED <<cfg, rep_no, retval, raised, mainLocals, ss_ret, workerLocals, env, log,
                   observed>>

\* mutant: on a timeout main returns without a value
MainSchedulerReturn_ReturnsNone ==
    /\ pc = "m_sched_ret"
    /\ IF ss_ret = "False"
       THEN /\ retval' = "None"
            /\ pc' = "loop"
       ELSE /\ pc' = "sw_gpu"
            /\ UNCHANGED retval
    /\ elapsed_time' = 0
    /\ sleep_left' = 0
    /\ clock' = IF clock < total_wait_time THEN 0 ELSE total_wait_time
    /\ UNCHANGED <<cfg, rep_no, raised, mainLocals, ss_ret, workerLocals, env, log, observed>>

\* main: if not start_scheduler(...): return -1
\* start_scheduler's frame is gone once main has its result: elapsed_time and
\* the sleep are forgotten, and of the clock only whether total_wait_time has
\* passed is kept (all that SchedulerWritesFile reads of it).
MainSchedulerReturn ==
    /\ pc = "m_sched_ret"
    /\ IF ss_ret = "False"
       THEN /\ retval' = "-1"
            /\ pc' = "loop"
       ELSE /\ pc' = "sw_gpu"
            /\ UNCHANGED retval
    /\ elapsed_time' = 0
    /\ sleep_left' = 0
    /\ clock' = IF clock < total_wait_time THEN 0 ELSE total_wait_time
    /\ UNCHANGED <<cfg, rep_no, raised, mainLocals, ss_ret, workerLocals, env, log, observed>>

----------------------------------------------------------------------------
\* start_workers_with_gpu: the name of the device-visibility variable
VisibleDevice(g) == IF g = "amd" THEN "ROCR_VISIBLE_DEVICES" ELSE "CUDA_VISIBLE_DEVICES"

\* mutant: device indexes counted from 1
Range_OneBased(n) == [k \in 1..n |-> k]

\* range(n) as a list
Range(n) == [k \in 1..n |-> k - 1]

\* mutant: the log file names leave out the GPU index
WorkerCmd_SharedLog(vd, node, j) ==
    [export |-> [name |-> vd, value |-> <<j>>],
     nthreads |-> 1,
     nworkers |-> 1,
     stdout |-> <<"worker_logs", "worker", node, 0, "out">>,
     stderr |-> <<"worker_logs", "worker", node, 0, "err">>]

\* worker_cmd: export {visible_device}={j} && dask worker --nthreads 1 --nworkers 1
\*   --no-dashboard --scheduler-file {scheduler_file} > {stdout} 2> {stderr}
WorkerCmd(vd, node, j) ==
    [export |-> [name |-> vd, value |-> <<j>>],
     nthreads |-> 1,
     nworkers |-> 1,
     stdout |-> <<"worker_logs", "worker", node, j, "out">>,
     stderr |-> <<"worker_logs", "worker", node, j, "err">>]

\* the inner loop: for j in range(n_gpus_per_node): worker_cmds.append(worker_cmd)
WorkerCmds(vd, node, ngpus) ==
    [k \in 1..Len(Range(ngpus)) |-> WorkerCmd(vd, node, Range(ngpus)[k])]

\* mutant: the outer loop stops one node early
MoreNodes_OffByOne(idx, n) == idx < n - 1

\* the outer loop test of for i in range(nnodes)
MoreNodes(idx, n) == idx < n

\* start_workers_with_gpu: the gpu_type branch, os.makedirs(worker_logs)
StartWorkersGpu ==
    /\ pc = "sw_gpu"
    /\ IF KnownGpu(gpu_type)
       THEN /\ pc' = "sw_node"
            /\ i' = 0
            /\ UNCHANGED raised
       ELSE /\ Raise("ValueError")
            /\ UNCHANGED i
    /\ UNCHANGED <<cfg, rep_no, retval, mainLocals, probeLocals, submissions, env, log, observed>>

\* one iteration of for i in range(nnodes): build the node's worker commands,
\* join them with " && " (all of them, in order) and submit them as one job
StartWorkersNode ==
    /\ pc = "sw_node"
    /\ MoreNodes(i, nnodes)
    /\ \E ok \in BOOLEAN :
        IF ok
        THEN /\ submissions' = Append(submissions,
                    [cmd |-> WorkerCmds(VisibleDevice(gpu_type), i, n_gpus_per_node),
                     node_count |-> 1,
                     processes_per_node |-> n_gpus_per_node,
                     gpus_per_job |-> n_gpus_per_node])
             /\ running' = [running EXCEPT !.workers = @ + 1]
             /\ log' = Append(log, "worker_submit")
             /\ i' = i + 1
             /\ UNCHANGED <<pc, raised>>
        ELSE /\ Raise("ExternalError")
             /\ UNCHANGED <<submissions, running, log, i>>
    /\ UNCHANGED <<cfg, rep_no, retval, mainLocals, probeLocals, scheduler_file, result_file,
                   consumers_running, success_written, observed>>

\* mutant: main goes from the workers to the teardown without start_client
StartWorkersGrace_SkipsClient ==
    /\ pc = "sw_node"
    /\ ~MoreNodes(i, nnodes)
    /\ log' = Append(log, "grace_wait")
    /\ pc' = "m_stop"
    /\ UNCHANGED <<cfg, rep_no, retval, raised, mainLocals, probeLocals, workerLocals, env, observed>>

\* after the loop: printed_sleep(dask_workers_startup_wait_in_sec)
StartWorkersGrace ==
    /\ pc = "sw_node"
    /\ ~MoreNodes(i, nnodes)
    /\ log' = Append(log, "grace_wait")
    /\ pc' = "sc_run"
    /\ UNCHANGED <<cfg, rep_no, retval, raised, mainLocals, probeLocals, workerLocals, env, observed>>

\* start_client: build the command, run_cmd_check_output(python_client_command),
\* printed_sleep(15).  The client may or may not leave workflow_result.json.
StartClient ==
    /\ pc = "sc_run"
    /\ log' = Append(log, "client")
    /\ result_file' \in BOOLEAN
    /\ \E ok \in BOOLEAN :
        IF ok
        THEN /\ pc' = "m_stop"
             /\ UNCHANGED raised
        ELSE Raise("ExternalError")
    /\ UNCHANGED <<cfg, rep_no, retval, mainLocals, probeLocals, workerLocals, scheduler_file,
                   running, consumers_running, success_written, observed>>

----------------------------------------------------------------------------
\* mutant: consumer.stop() without the None test
MainConsumerStop_Unconditional ==
    /\ pc = "m_stop"
    /\ log' = Append(log, "consumer_stop")
    /\ consumers_running' = consumers_running - 1
    /\ pc' = "m_result"
    /\ UNCHANGED <<cfg, rep_no, retval, raised, mainLocals, probeLocals, workerLocals,
                   scheduler_file, result_file, running, success_written, observed>>

\* main: if consumer is not None: consumer.stop()
MainConsumerStop ==
    /\ pc = "m_stop"
    /\ IF consumer # "None"
       THEN \E ok \in BOOLEAN :
              IF ok
              THEN /\ log' = Append(log, "consumer_stop")
                   /\ consumers_running' = consumers_running - 1
                   /\ pc' = "m_result"
                   /\ UNCHANGED raised
              ELSE /\ Raise("ExternalError")
                   /\ UNCHANGED <<log, consumers_running>>
       ELSE /\ pc' = "m_result"
            /\ UNCHANGED <<raised, log, consumers_running>>
    /\ UNCHANGED <<cfg, rep_no, retval, mainLocals, probeLocals, workerLocals, scheduler_file,
                   result_file, running, success_written, observed>>

\* main: if os.path.exists(workflow_result_file): open(json_file_path, 'r') ...
\*       else: workflow_result = None
\* json_file_path is not defined anywhere: evaluating it raises NameError.
MainReadResult ==
    /\ pc = "m_result"
    /\ log' = Append(log, "collect_result")
    /\ IF result_file
       THEN /\ Raise("NameError")
            /\ UNCHANGED workflow_result
       ELSE /\ workflow_result' = "None"
            /\ pc' = "m_output"
            /\ UNCHANGED raised
    /\ UNCHANGED <<cfg, rep_no, retval, consumer, flowcept_settings, preload_scheduler_cmd,
                   job_output, probeLocals, workerLocals, env, observed>>

\* main: job_output = cluster_utils.generate_job_output(...)
MainJobOutput ==
    /\ pc = "m_output"
    /\ \E ok \in BOOLEAN :
        IF ok
        THEN /\ job_output' = [rep_no |-> rep_no,
                               workflow_result |-> workflow_result,
                               with_flowcept |-> with_flowcept,
                               flowcept_settings |-> flowcept_settings]
             /\ log' = Append(log, "job_output")
             /\ pc' = "m_persist"
             /\ UNCHANGED raised
        ELSE /\ Raise("ExternalError")
             /\ UNCHANGED <<job_output, log>>
    /\ UNCHANGED <<cfg, rep_no, retval, consumer, flowcept_settings, preload_scheduler_cmd,
                   workflow_result, probeLocals, workerLocals, env, observed>>

\* main: if with_flowcept: test_data_and_persist(rep_dir, wf_result, job_output)
\* wf_result is not defined anywhere: evaluating the argument raises NameError.
MainPersist ==
    /\ pc = "m_persist"
    /\ IF with_flowcept
       THEN Raise("NameError")
       ELSE /\ pc' = "m_kill_end"
            /\ UNCHANGED raised
    /\ UNCHANGED <<cfg, rep_no, retval, mainLocals, probeLocals, workerLocals, env, log, observed>>

\* main: cluster_utils.kill_all_running_job_steps(); falls off the end (returns None)
MainKillEnd ==
    /\ pc = "m_kill_end"
    /\ \E ok \in BOOLEAN :
        IF ok
        THEN /\ running' = [sched |-> 0, workers |-> 0]
             /\ log' = Append(log, "kill_steps")
             /\ retval' = "None"
             /\ pc' = "loop"
             /\ UNCHANGED raised
        ELSE /\ Raise("ExternalError")
             /\ UNCHANGED <<running, log, retval>>
    /\ UNCHANGED <<cfg, rep_no, mainLocals, probeLocals, workerLocals, scheduler_file,
                   result_file, consumers_running, success_written, observed>>

----------------------------------------------------------------------------
\* History kept beside the program's own state: outcomes gets the value main
\* returns, each time main returns; sleeps is not counted in the whole job.
RecordOutcome ==
    outcomes' = IF retval = "unset" /\ retval' # "unset"
                THEN Append(outcomes, retval')
                ELSE outcomes

JobHistory == RecordOutcome /\ UNCHANGED <<sleeps, clientText>>

Next ==
    \/ LoopNext /\ JobHistory
    \/ WriteSuccess /\ JobHistory
    \/ MainKillOld /\ JobHistory
    \/ MainSetup /\ JobHistory
    \/ MainFlowceptBranch /\ JobHistory
    \/ FcSettings /\ JobHistory
    \/ FcKillDbs /\ JobHistory
    \/ FcStartRedis /\ JobHistory
    \/ FcStartMongo /\ JobHistory
    \/ FcSkipMongo /\ JobHistory
    \/ FcStartConsumer /\ JobHistory
    \/ StartSchedulerGpu /\ JobHistory
    \/ StartSchedulerRunJob /\ JobHistory
    \/ ProbeLoop /\ JobHistory
    \/ ProbeSleepTick /\ JobHistory
    \/ ProbeWake /\ JobHistory
    \/ ProbeFinal /\ JobHistory
    \/ SchedulerWritesFile /\ JobHistory
    \/ MainSchedulerReturn /\ JobHistory
    \/ StartWorkersGpu /\ JobHistory
    \/ StartWorkersNode /\ JobHistory
    \/ StartWorkersGrace /\ JobHistory
    \/ StartClient /\ JobHistory
    \/ MainConsumerStop /\ JobHistory
    \/ MainReadResult /\ JobHistory
    \/ MainJobOutput /\ JobHistory
    \/ MainPersist /\ JobHistory
    \/ MainKillEnd /\ JobHistory

Spec == Init /\ [][Next]_vars

----------------------------------------------------------------------------
\* Reading the history of the current repetition
Has(e) == Count(log, e) > 0

\* every e1 in the log comes before every e2, and an e2 has an e1 before it
Precedes(e1, e2) ==
    /\ \A a, b \in 1..Len(log) : (log[a] = e1 /\ log[b] = e2) => a < b
    /\ Has(e2) => Has(e1)

\* the repetition rep_no is over: main returned, or raised and took the process down
RepEnded == pc = "crashed" \/ (pc \in {"loop", "exit"} /\ rep_no >= 0)

\* C1: no worker process group is submitted and the client is not invoked
\* unless start_scheduler has seen the scheduler file existing, whenever the
\* scheduler writes the file and with or without monitoring.
C1_LaunchOnlyAfterObserved ==
    /\ (Has("worker_submit") \/ Has("client")) => observed
    /\ pc \in {"sw_gpu", "sw_node", "sc_run"} => observed

C1_Witness ==
    /\ Has("worker_submit")
    /\ Has("client")
    /\ observed
    /\ with_flowcept
    /\ scheduler_file = "created_late"

C3_ConsumerStoppedOnTimeout ==
    (RepEnded /\ retval = "-1" /\ Has("consumer_start")) => Has("consumer_stop")

\* C4 (as claimed): with the consumer started, a worker submission or the
\* client raising still has consumer.stop() invoked before the repetition
\* reports the failure.
C4_ConsumerStoppedOnLaterFailure ==
    (pc = "crashed" /\ raised.at \in {"sw_node", "sc_run"} /\ Has("consumer_start")) =>
        Has("consumer_stop")

\* C5: in one repetition the consumer is stopped at most once and only if it
\* was started in it; with monitoring off nothing of the monitoring is
\* started or stopped and the job output gets flowcept_settings = None.
C5_ConsumerStopDiscipline ==
    /\ Count(log, "consumer_stop") <= 1
    /\ Has("consumer_stop") => (Has("consumer_start") /\ consumer # "None")
    /\ ~with_flowcept =>
        /\ ~Has("consumer_start")
        /\ ~Has("consumer_stop")
        /\ ~Has("start_redis")
        /\ ~Has("start_mongo")
        /\ consumer = "None"
        /\ Has("job_output") => job_output.flowcept_settings = "None"

C5_Witness ==
    /\ ~with_flowcept
    /\ Has("job_output")
    /\ job_output.flowcept_settings = "None"
    /\ pc = "loop"
    /\ retval = "None"

\* the worker commands of all submissions so far
RECURSIVE TotalCmds(_)
TotalCmds(subs) == IF subs = <<>> THEN 0 ELSE Len(Head(subs).cmd) + TotalCmds(Tail(subs))

\* C6: start_workers_with_gpu produces nnodes * n_gpus_per_node worker
\* commands in total, and each one's visibility assignment names exactly one
\* device index j with 0 <= j < n_gpus_per_node.
C6_WorkerPlanSize ==
    /\ \A k \in 1..Len(submissions) :
         \A m \in 1..Len(submissions[k].cmd) :
            LET d == submissions[k].cmd[m] IN
              /\ d.export.name \in {"ROCR_VISIBLE_DEVICES", "CUDA_VISIBLE_DEVICES"}
              /\ Len(d.export.value) = 1
              /\ d.export.value[1] \in 0..(n_gpus_per_node - 1)
    /\ Has("grace_wait") => TotalCmds(submissions) = nnodes * n_gpus_per_node

C6_Witness ==
    /\ Has("grace_wait")
    /\ nnodes = MaxNodes
    /\ n_gpus_per_node = MaxGpus
    /\ TotalCmds(submissions) = MaxNodes * MaxGpus

\* C7 (as claimed): for a gpu_type other than amd / nvidia the ValueError is
\* raised before anything is started or submitted in the repetition: no
\* backing store, no consumer, no scheduler, no worker.
C7_UnknownGpuBeforeAnyLaunch ==
    (pc = "crashed" /\ raised.exc = "ValueError") =>
        /\ ~Has("start_redis")
        /\ ~Has("start_mongo")
        /\ ~Has("consumer_start")
        /\ ~Has("sched_submit")
        /\ ~Has("worker_submit")

\* C8: the scheduler submission comes before every worker submission, every
\* worker submission before the client invocation, and the client invocation
\* before consumer.stop() and before the result file is looked for.
C8_StageOrder ==
    /\ Precedes("sched_submit", "worker_submit")
    /\ Precedes("sched_submit", "client")
    /\ \A a, b \in 1..Len(log) : (log[a] = "worker_submit" /\ log[b] = "client") => a < b
    /\ Precedes("client", "consumer_stop")
    /\ Precedes("client", "collect_result")

C8_Witness ==
    /\ with_flowcept
    /\ Count(log, "worker_submit") = MaxNodes
    /\ Has("consumer_stop")
    /\ Has("collect_result")
    /\ pc = "m_output"

\* C9: in a repetition whose scheduler became ready and in which no external
\* call failed, exactly one scheduler job and exactly nnodes worker jobs are
\* submitted (job k carrying the n_gpus_per_node commands of node k), all
\* before the grace wait starts, and the client is invoked exactly once.
C9_SubmissionCounts ==
    /\ Count(log, "sched_submit") <= 1
    /\ Count(log, "client") <= 1
    /\ Count(log, "worker_submit") = Len(submissions)
    /\ Len(submissions) <= nnodes
    /\ \A k \in 1..Len(submissions) :
         /\ Len(submissions[k].cmd) = n_gpus_per_node
         /\ \A m \in 1..n_gpus_per_node : submissions[k].cmd[m].stdout[3] = k - 1
    /\ Has("grace_wait") =>
         /\ Count(log, "sched_submit") = 1
         /\ Len(submissions) = nnodes
         /\ Precedes("worker_submit", "grace_wait")
    /\ Has("client") => Has("grace_wait")
    /\ (RepEnded /\ observed /\ raised.exc # "ExternalError") =>
         /\ Has("grace_wait")
         /\ Count(log, "client") = 1

C9_Witness ==
    /\ pc = "loop"
    /\ retval = "None"
    /\ nnodes = MaxNodes
    /\ n_gpus_per_node = MaxGpus
    /\ Len(submissions) = MaxNodes
    /\ Count(log, "client") = 1

\* C10 (as claimed): the probe returns True exactly when the scheduler file
\* appeared within the total_wait_time budget, and False otherwise.
C10_TrueIffWithinBudget ==
    pc = "m_sched_ret" => (ss_ret = "True" <=> scheduler_file = "created_in_budget")

\* C10 (amended): the probe returns True exactly when the scheduler file is
\* there at the existence test made after the loop, which covers every file
\* created within the budget and also one created during the last sleep,
\* after the budget has passed; it returns False only with the file absent
\* at that test and the measured elapsed time at or over the budget; it
\* raises nothing.
C10_TrueIffPresentAtFinalCheck ==
    /\ pc \in {"ss_loop", "ss_sleep", "ss_check", "m_sched_ret"} => raised.exc = "none"
    /\ pc = "ss_check" => (Exists(scheduler_file) \/ elapsed_time >= total_wait_time)
    /\ pc = "m_sched_ret" =>
         /\ ss_ret \in {"True", "False"}
         /\ scheduler_file = "created_in_budget" => ss_ret = "True"
         /\ ss_ret = "True" <=> observed
         /\ ss_ret = "True" => Exists(scheduler_file)
         /\ ss_ret = "False" =>
              /\ elapsed_time >= total_wait_time
              /\ scheduler_file # "created_in_budget"

C10_Witness ==
    /\ pc = "m_sched_ret"
    /\ ss_ret = "True"
    /\ scheduler_file = "created_late"
    /\ elapsed_time > total_wait_time

----------------------------------------------------------------------------
\* C12 (as claimed): in a repetition that reaches result collection, a
\* missing result file gives a None result and is no error, a present file
\* gives its content as the result, and in both cases collection completes.
C12_ResultCollectionCompletes ==
    Has("collect_result") =>
        /\ raised.at # "m_result"
        /\ workflow_result = IF result_file THEN "payload" ELSE "None"

\* C13 (as claimed): whatever the outcome of repetition k (a -1, or an
\* exception raised inside it), with k + 1 < nreps repetition k + 1 is started.
C13_NextRepetitionStarts ==
    (RepEnded /\ rep_no + 1 < nreps) => ENABLED LoopNext

\* C15 (as claimed): the SUCCESS file is written at most once, only after all
\* nreps repetitions have finished, and only if none of them returned -1.
C15_SuccessMeansAllSucceeded ==
    /\ success_written <= 1
    /\ success_written > 0 =>
         /\ Len(outcomes) = nreps
         /\ \A k \in 1..Len(outcomes) : outcomes[k] # "-1"

\* C16 (as claimed): a repetition whose scheduler became ready and in which
\* no external call failed goes on to the final kill_all_running_job_steps
\* and returns, with the job output generated exactly once, with or without
\* monitoring and with or without a result file.
C16_ReachesDone ==
    (RepEnded /\ observed /\ raised.exc # "ExternalError") =>
        /\ pc # "crashed"
        /\ retval = "None"
        /\ Count(log, "job_output") = 1
        /\ log[Len(log)] = "kill_steps"

\* the calls of start_flowcept, in the order the configuration asks for
FlowceptEvents ==
    {"fc_settings", "fc_env", "kill_dbs", "start_redis", "start_mongo", "consumer_start"}

FlowceptOrder ==
    IF should_start_mongo
    THEN <<"fc_settings", "fc_env", "kill_dbs", "start_redis", "start_mongo", "consumer_start">>
    ELSE <<"fc_settings", "fc_env", "kill_dbs", "start_redis", "consumer_start">>

\* C18: with monitoring on, the start sequence runs in the order settings
\* merged, settings path put in the environment, stale stores killed, redis
\* started, mongo started iff configured, consumer started, and is complete
\* before the scheduler is submitted; if one of its steps raises, no
\* scheduler, worker or client is started in the repetition.
C18_MonitoringStartSequence ==
    LET done == SelectSeq(log, LAMBDA e : e \in FlowceptEvents) IN
    /\ Len(done) <= Len(FlowceptOrder)
    /\ done = SubSeq(FlowceptOrder, 1, Len(done))
    /\ (with_flowcept /\ Has("sched_submit")) =>
         /\ done = FlowceptOrder
         /\ Precedes("consumer_start", "sched_submit")
    /\ (pc = "crashed"
         /\ raised.at \in {"fc_settings", "fc_kill_dbs", "fc_redis", "fc_mongo", "fc_consumer"}) =>
         /\ ~Has("sched_submit")
         /\ ~Has("worker_submit")
         /\ ~Has("client")

C18_Witness ==
    /\ with_flowcept
    /\ should_start_mongo
    /\ Has("start_mongo")
    /\ Has("sched_submit")

\* the worker commands submitted so far, as (submission, position) pairs
Descriptors ==
    UNION {{<<k, m>> : m \in 1..Len(submissions[k].cmd)} : k \in 1..Len(submissions)}

Descriptor(d) == submissions[d[1]].cmd[d[2]]

\* C19: every (node index, GPU index) pair has exactly one worker command, no
\* two commands share a stdout or stderr path, and the commands of one
\* submission name pairwise different device indexes.
C19_OneWorkerPerNodeGpuPair ==
    /\ \A d1, d2 \in Descriptors :
         d1 # d2 =>
           /\ Descriptor(d1).stdout # Descriptor(d2).stdout
           /\ Descriptor(d1).stderr # Descriptor(d2).stderr
           /\ d1[1] = d2[1] => Descriptor(d1).export.value # Descriptor(d2).export.value
    /\ \A d1, d2 \in Descriptors : Descriptor(d1).stdout # Descriptor(d2).stderr
    /\ Has("grace_wait") =>
         \A node \in 0..(nnodes - 1), j \in 0..(n_gpus_per_node - 1) :
            Cardinality({d \in Descriptors :
                            /\ d[1] = node + 1
                            /\ Descriptor(d).stdout[3] = node
                            /\ Descriptor(d).stdout[4] = j
                            /\ Descriptor(d).export.value = <<j>>}) = 1

C19_Witness ==
    /\ Has("grace_wait")
    /\ nnodes = MaxNodes
    /\ n_gpus_per_node = MaxGpus
    /\ Cardinality(Descriptors) = MaxNodes * MaxGpus

\* C20: every repetition kills all running job steps before it submits its
\* scheduler: at most one scheduler job runs at any moment, and no scheduler
\* or worker of an earlier repetition (one that timed out and returned
\* without the final kill included) runs when the scheduler is submitted.
C20_NoLeftoverJobSteps ==
    /\ running.sched <= 1
    /\ pc \in {"m_setup", "m_flowcept", "fc_settings", "fc_kill_dbs", "fc_redis", "fc_mongo",
               "fc_consumer", "ss_gpu", "ss_run_job"} =>
         /\ running.sched = 0
         /\ running.workers = 0
    /\ pc # "m_kill" => running.workers <= Len(submissions)

C20_Witness ==
    /\ rep_no = 1
    /\ outcomes = <<"-1">>
    /\ pc = "ss_loop"
    /\ running.sched = 1
    /\ running.workers = 0

----------------------------------------------------------------------------
\* start_scheduler on its own: from the call at main's line 239 (first
\* repetition, monitoring off) to its return or its exception, with the
\* number of printed_sleep calls counted.
ProbeInit ==
    /\ nnodes = 1
    /\ n_gpus_per_node = 1
    /\ gpu_type \in GpuTypes
    /\ with_flowcept = FALSE
    /\ should_start_mongo = FALSE
    /\ nreps = 1
    /\ pc = "ss_gpu"
    /\ rep_no = 0
    /\ retval = "unset"
    /\ raised = [exc |-> "none", at |-> "none"]
    /\ consumer = "None"
    /\ flowcept_settings = "None"
    /\ preload_scheduler_cmd = ""
    /\ workflow_result = "unset"
    /\ job_output = "unset"
    /\ clock = 0
    /\ elapsed_time = 0
    /\ sleep_left = 0
    /\ ss_ret = "unset"
    /\ i = 0
    /\ submissions = <<>>
    /\ scheduler_file = "absent"
    /\ result_file = FALSE
    /\ running = [sched |-> 0, workers |-> 0]
    /\ consumers_running = 0
    /\ success_written = 0
    /\ log = <<"kill_steps", "which_python">>
    /\ observed = FALSE
    /\ outcomes = <<>>
    /\ sleeps = 0
    /\ ClientTextIdle

\* sleeps counts the entries into the loop body (printed_sleep(wait_time))
CountSleeps ==
    sleeps' = IF pc = "ss_loop" /\ pc' = "ss_sleep" THEN sleeps + 1 ELSE sleeps

ProbeHistory == CountSleeps /\ UNCHANGED <<outcomes, clientText>>

\* the steps of the thread that runs start_scheduler
ProbeControl ==
    \/ StartSchedulerGpu /\ ProbeHistory
    \/ StartSchedulerRunJob /\ ProbeHistory
    \/ ProbeLoop /\ ProbeHistory
    \/ ProbeSleepTick /\ ProbeHistory
    \/ ProbeWake /\ ProbeHistory
    \/ ProbeFinal /\ ProbeHistory

ProbeNext ==
    \/ ProbeControl
    \/ SchedulerWritesFile /\ ProbeHistory

ProbeSpec == ProbeInit /\ [][ProbeNext]_vars

\* The interpreter keeps running start_scheduler (printed_sleep returns, the
\* calls return or raise); nothing obliges the scheduler to write its file.
ProbeFairSpec == ProbeSpec /\ WF_vars(ProbeControl)

ProbeReturned == pc \in {"m_sched_ret", "crashed"}

\* C11: the scheduler file is written once and stays; once it has appeared
\* within the budget while the probe waits, the probe starts no further
\* sleep (it is found when the sleep under way ends) and the probe
\* eventually returns True.
C11_FoundAtEndOfCurrentSleep ==
    /\ [][/\ Exists(scheduler_file) => scheduler_file' = scheduler_file
          /\ Exists(scheduler_file) => sleeps' = sleeps
          /\ (Exists(scheduler_file) /\ pc = "ss_sleep") =>
                (sleep_left' < sleep_left \/ (sleep_left = 0 /\ pc' = "ss_loop"))
          /\ (Exists(scheduler_file) /\ pc \in {"ss_loop", "ss_check"}) =>
                pc' \in {"ss_check", "m_sched_ret"}
          /\ (Exists(scheduler_file) /\ pc = "ss_check") => ss_ret' = "True"]_vars
    /\ (pc \in {"ss_loop", "ss_sleep", "ss_check"} /\ scheduler_file = "created_in_budget")
          ~> (pc = "m_sched_ret" /\ ss_ret = "True")

C11_Witness ==
    /\ pc = "m_sched_ret"
    /\ ss_ret = "True"
    /\ scheduler_file = "created_in_budget"
    /\ sleeps >= 1
    /\ elapsed_time < total_wait_time

\* the budget divided by the poll interval, rounded up
MaxSleeps == (total_wait_time + wait_time - 1) \div wait_time

----------------------------------------------------------------------------
\* start_client's building of the client command (lines 122-137), on its
\* own.  A string is a sequence of tokens; a placeholder "$[" + k + "_val]"
\* is the token "$[" followed by the token that closes the key k.
MaxTemplateLen == 5

Keys == {"rep-dir", "scheduler-file", "workflow-params"}

Closing(k) ==
    CASE k = "rep-dir" -> "rep-dir_val]"
      [] k = "scheduler-file" -> "scheduler-file_val]"
      [] k = "workflow-params" -> "workflow-params_val]"

\* "$[" + k + "_val]"
Placeholder(k) == <<"$[", Closing(k)>>

TemplateTokens == {"x", "$["} \cup {Closing(k) : k \in Keys}

SeqsUpTo(S, n) == UNION {[1..m -> S] : m \in 0..n}

\* sub in s  (substring test)
Contains(s, sub) ==
    \E k \in 1..(Len(s) - Len(sub) + 1) : SubSeq(s, k, k + Len(sub) - 1) = sub

\* mutant: only the first occurrence is replaced
RECURSIVE Replace_FirstOnly(_, _, _)
Replace_FirstOnly(s, old, new) ==
    IF Len(s) < Len(old) THEN s
    ELSE IF SubSeq(s, 1, Len(old)) = old
         THEN new \o SubSeq(s, Len(old) + 1, Len(s))
         ELSE <<Head(s)>> \o Replace_FirstOnly(Tail(s), old, new)

\* str.replace(old, new) for a non-empty old: every non-overlapping
\* occurrence, found from left to right; the inserted text is not rescanned
RECURSIVE Replace(_, _, _)
Replace(s, old, new) ==
    IF Len(s) < Len(old) THEN s
    ELSE IF SubSeq(s, 1, Len(old)) = old
         THEN new \o Replace(SubSeq(s, Len(old) + 1, Len(s)), old, new)
         ELSE <<Head(s)>> \o Replace(Tail(s), old, new)

\* os.path.join(a, b): an absolute b replaces a; a separator is put between
\* them unless a is empty or ends with one
PathJoin(a, b) ==
    IF b # <<>> /\ Head(b) = "/" THEN b
    ELSE IF a = <<>> \/ a[Len(a)] = "/" THEN a \o b
    ELSE a \o <<"/">> \o b

\* main, lines 208-216
job_dir == PathJoin(PathJoin(proj_dir, <<"exps">>), my_job_id)
rep_dir == PathJoin(job_dir, <<ToString(rep_no)>>)
scheduler_file_path == PathJoin(rep_dir, <<"scheduler_info.json">>)

\* main, line 221
with_flowcept_arg == IF with_flowcept THEN <<"--with-flowcept">> ELSE <<>>

\* the state in which main calls start_client (line 245): first repetition
\* of a job on one nvidia node with one GPU, monitoring off, the scheduler
\* file found at the first test
ClientCallState ==
    /\ nnodes = 1
    /\ n_gpus_per_node = 1
    /\ gpu_type = "nvidia"
    /\ with_flowcept = FALSE
    /\ should_start_mongo = FALSE
    /\ nreps = 1
    /\ pc = "sc_run"
    /\ rep_no = 0
    /\ retval = "unset"
    /\ raised = [exc |-> "none", at |-> "none"]
    /\ consumer = "None"
    /\ flowcept_settings = "None"
    /\ preload_scheduler_cmd = ""
    /\ workflow_result = "unset"
    /\ job_output = "unset"
    /\ clock = 0
    /\ elapsed_time = 0
    /\ sleep_left = 0
    /\ ss_ret = "True"
    /\ i = 1
    /\ submissions = <<[cmd |-> WorkerCmds(VisibleDevice("nvidia"), 0, 1), node_count |-> 1,
                        processes_per_node |-> 1, gpus_per_job |-> 1]>>
    /\ scheduler_file = "created_in_budget"
    /\ result_file = FALSE
    /\ running = [sched |-> 1, workers |-> 1]
    /\ consumers_running = 0
    /\ success_written = 0
    /\ log = <<"kill_steps", "which_python", "sched_submit", "worker_submit", "grace_wait">>
    /\ observed = TRUE
    /\ outcomes = <<>>
    /\ sleeps = 0

\* the configured template is any text; the project directory is a plain
\* name or, perversely, text that reads as a placeholder; the workflow
\* parameters are absent or present
ClientInit ==
    /\ ClientCallState
    /\ dask_user_workflow \in SeqsUpTo(TemplateTokens, MaxTemplateLen)
    /\ proj_dir \in {<<"proj">>} \cup {Placeholder(k) : k \in Keys}
    /\ my_job_id = <<"job">>
    /\ wf_params \in {<<>>, <<"p">>}
    /\ python_client_command = <<>>
    /\ client_cmd_args = <<>>
    /\ arg_no = 0
    /\ cpc = "template"

\* lines 122-132: the template and the dict of values, in insertion order
ClientTemplate ==
    /\ cpc = "template"
    /\ python_client_command' = <<"python ">> \o dask_user_workflow
    /\ client_cmd_args' =
          <<[k |-> "rep-dir", v |-> rep_dir],
            [k |-> "scheduler-file", v |-> scheduler_file_path]>>
          \o (IF Len(wf_params) > 0
              THEN <<[k |-> "workflow-params", v |-> <<"'json'">>]>>
              ELSE <<>>)
    /\ arg_no' = 1
    /\ cpc' = "replace"
    /\ UNCHANGED <<dask_user_workflow, proj_dir, my_job_id, wf_params>>

\* lines 134-135: one turn of the loop over client_cmd_args.items()
ClientReplace ==
    /\ cpc = "replace"
    /\ arg_no <= Len(client_cmd_args)
    /\ python_client_command' =
          Replace(python_client_command,
                  Placeholder(client_cmd_args[arg_no].k), client_cmd_args[arg_no].v)
    /\ arg_no' = arg_no + 1
    /\ UNCHANGED <<dask_user_workflow, proj_dir, my_job_id, wf_params, client_cmd_args, cpc>>

\* line 137: python_client_command += " " + with_flowcept_arg
ClientAppendFlag ==
    /\ cpc = "replace"
    /\ arg_no > Len(client_cmd_args)
    /\ python_client_command' = python_client_command \o <<" ">> \o with_flowcept_arg
    /\ cpc' = "built"
    /\ UNCHANGED <<dask_user_workflow, proj_dir, my_job_id, wf_params, client_cmd_args, arg_no>>

ClientFrame ==
    UNCHANGED <<cfg, pc, rep_no, retval, raised, mainLocals, probeLocals, workerLocals, env,
                log, observed, outcomes, sleeps>>

ClientNext ==
    \/ ClientTemplate /\ ClientFrame
    \/ ClientReplace /\ ClientFrame
    \/ ClientAppendFlag /\ ClientFrame

ClientSpec == ClientInit /\ [][ClientNext]_vars

\* the whole loop of lines 134-135 applied to a command
RECURSIVE Substitute(_, _)
Substitute(cmd, args) ==
    IF args = <<>> THEN cmd
    ELSE Substitute(Replace(cmd, Placeholder(Head(args).k), Head(args).v), Tail(args))

SuppliedKeys == {client_cmd_args[n].k : n \in 1..Len(client_cmd_args)}

\* the built command holds no placeholder of a supplied key, and the loop
\* applied to it again leaves it as it is
FullySubstituted ==
    /\ \A k \in SuppliedKeys : ~Contains(python_client_command, Placeholder(k))
    /\ Substitute(python_client_command, client_cmd_args) = python_client_command

HasBothPlaceholders ==
    /\ Contains(dask_user_workflow, Placeholder("rep-dir"))
    /\ Contains(dask_user_workflow, Placeholder("scheduler-file"))

\* no supplied value reads as a placeholder of a supplied key
PlainValues ==
    \A n \in 1..Len(client_cmd_args) : \A k \in SuppliedKeys :
        ~Contains(client_cmd_args[n].v, Placeholder(k))

====
